---- MODULE Spec2Model ----
(***************************************************************************)
(* Model of scripts/process_lap_excels.py: the header sanitizer with its   *)
(* process-wide decision memory, the metadata appender, the missing-value  *)
(* filler and the corpus merger.                                           *)
(*                                                                         *)
(* A Python str is a sequence of one-character strings, so that strip(),   *)
(* lower(), isalnum() and the character-level sanitization are computed    *)
(* and not assumed.  The empty str '' is << >>.  A CSV row is a sequence   *)
(* of str, a table is a header row and a sequence of rows.  List indices   *)
(* keep Python's 0-based values; list[i] is written seq[i + 1].            *)
(***************************************************************************)
EXTENDS Integers, Sequences, FiniteSets, TLC

\* ------------------------------------------------------------------ bounds
MaxCols == 2
MaxRows == 1
NumFiles == 2
MaxMenuNumber == 0
MaxMergeFiles == 2
MaxMergeCols == 2
MaxMergeRows == 1
MaxFillCols == 2
MaxFillRows == 1
MaxMetaCols == 2
MaxMetaRows == 1
MaxPruneCols == 2
MaxPruneRows == 2
MaxAlignCols == 1
MaxAlignRows == 2
MaxBatchFiles == 2
MaxSheetRows == 1

MaxSampleRows == 13

\* ------------------------------------------------------- program constants
ALLOWED_COLUMN_NAMES ==
  << <<"i","n","f","o","r","m","a","n","t">>,
     <<"r","e","s","p","o","n","s","e">>,
     <<"c","o","m","m","e","n","t","s">>,
     <<"p","h","o","n","e","t","i","c","_","t","r","a","n","s","c","r","i","p","t","i","o","n">>,
     <<"p","r","o","j","e","c","t">>,
     <<"p","a","g","e">>,
     <<"l","i","n","e">>,
     <<"f","i","l","e","n","a","m","e">> >>

SampleSize == 12

\* ------------------------------------------------------------- Python str
Range(s) == {s[i] : i \in 1..Len(s)}

AsciiUpper ==
  <<"A","B","C","D","E","F","G","H","I","J","K","L","M",
    "N","O","P","Q","R","S","T","U","V","W","X","Y","Z">>

AsciiLower ==
  <<"a","b","c","d","e","f","g","h","i","j","k","l","m",
    "n","o","p","q","r","s","t","u","v","w","x","y","z">>

AsciiDigits == {"0","1","2","3","4","5","6","7","8","9"}

Whitespace == {" ", "\t"}

\* str.lower()
lower(s) ==
  [i \in 1..Len(s) |->
     IF \E k \in 1..26 : AsciiUpper[k] = s[i]
     THEN AsciiLower[CHOOSE k \in 1..26 : AsciiUpper[k] = s[i]]
     ELSE s[i]]

\* str.strip(): drop the leading and the trailing whitespace
RECURSIVE lstrip(_)
lstrip(s) ==
  IF s # << >> /\ Head(s) \in Whitespace THEN lstrip(Tail(s)) ELSE s

RECURSIVE rstrip(_)
rstrip(s) ==
  IF s # << >> /\ s[Len(s)] \in Whitespace
  THEN rstrip(SubSeq(s, 1, Len(s) - 1)) ELSE s

strip(s) == rstrip(lstrip(s))

\* str.isalnum() and str.isnumeric() of one character
isalnum(c) == c \in Range(AsciiUpper) \cup Range(AsciiLower) \cup AsciiDigits

isnumeric(c) == c \in AsciiDigits

\* str.isidentifier()
isidentifier(s) ==
  /\ s # << >>
  /\ s[1] \in Range(AsciiUpper) \cup Range(AsciiLower) \cup {"_"}
  /\ \A i \in 1..Len(s) : isalnum(s[i]) \/ s[i] = "_"

\* list[i] with Python's negative indices; the caller checks the range
PyIndex(list, i) == IF i >= 0 THEN list[i + 1] ELSE list[Len(list) + i + 1]

\* list.pop(i) for 0 <= i < len(list)
Pop(list, i) == SubSeq(list, 1, i) \o SubSeq(list, i + 2, Len(list))

\* ------------------------------------------------------------ CSV tables
\* Python's None, as a dict key (csv.DictReader's restkey) or a dict value
\* (its restval); no str of the model equals it
NoneValue == <<"None">>

SeqsUpTo(S, lo, hi) == UNION {[1..n -> S] : n \in lo..hi}

\* the tables of 1..maxc columns whose every row is as long as the header
TablesOf(H, C, maxc, maxr) ==
  UNION {{[headers |-> h, rows |-> r] :
            h \in [1..n -> H], r \in SeqsUpTo([1..n -> C], 0, maxr)} :
         n \in 1..maxc}

NoTable == [headers |-> << >>, rows |-> << >>]

\* raw header cells of a converted worksheet: blank, a vocabulary name in
\* title case, a name outside the vocabulary, a name that starts with a digit
RawHeaders ==
  { << >>, <<"P","a","g","e">>, <<"R","e","s","p",".">>, <<"2","n","d">> }

\* Tables whose data rows carry, in each column, the letter of the column:
\* the letters tell the columns of a written file apart where the code
\* never branches on a data cell.
ColumnLetters == <<"a", "b", "c", "d">>

LetterRow(n) == [j \in 1..n |-> <<ColumnLetters[j]>>]

LetterTables(H, maxc, K) ==
  UNION {{[headers |-> h, rows |-> [r \in 1..k |-> LetterRow(n)]] :
            h \in [1..n -> H], k \in K} :
         n \in 1..maxc}

\* what the user types when asked for a new column name
TypedNames == { <<" ","N","o","t","e">>, <<"2","x">> }

\* the numbers the menu of verify_new_column_name accepts, less one
MenuNumbers ==
  {n \in -1..(Len(ALLOWED_COLUMN_NAMES) - 1) : n <= MaxMenuNumber}

VARIABLES
  destructive, discard_empty, assume_headers, enforce_headers,
  remembered_enforced_column_name_changes,
  file_no, pc, outcome, csv_file,
  headers, rows, new_headers, sanitized_headers,
  empty_column_header_indices, discarded_column_indices, loop_pos,
  input, rejected, decided, resolution, recorded,
  output_directory, dir_before, filename_regex, xlsx_filename,
  mode, merge, sanitize_headers, prune_empty_columns, append_metadata,
  num_files, stage, ran, worksheet, printed_sample

flagVars == <<destructive, discard_empty, assume_headers, enforce_headers>>

localVars ==
  <<headers, rows, new_headers, sanitized_headers,
    empty_column_header_indices, discarded_column_indices, loop_pos>>

historyVars == <<input, rejected, decided, resolution, recorded>>

sanVars ==
  <<flagVars, remembered_enforced_column_name_changes, file_no, pc, outcome,
    csv_file, localVars, historyVars>>

\* the directory the merger reads and writes, and the arguments of the
\* metadata appender
\* the command line of a run (lines 592-685), the number of workbooks it
\* finds, the stage convert_excel_file_to_csvs is in, the stages it has
\* completed for the current file, the worksheet the file was made from and
\* the column sample last printed
runVars ==
  <<mode, merge, sanitize_headers, prune_empty_columns, append_metadata,
    num_files, stage, ran, worksheet, printed_sample>>

stageVars ==
  <<output_directory, dir_before, filename_regex, xlsx_filename, runVars>>

NoResolution == [called |-> FALSE]

\* a stage called on its own, outside a run of process_batch or
\* process_single
NoRun ==
  /\ mode = "batch"
  /\ merge = FALSE
  /\ sanitize_headers = TRUE
  /\ prune_empty_columns = TRUE
  /\ append_metadata = TRUE
  /\ num_files = 0
  /\ stage = "none"
  /\ ran = << >>
  /\ worksheet = NoTable
  /\ printed_sample = << >>

EmptyDict == [k \in {} |-> 0]

\* ------------------------------------------------- verify_new_column_name
\* a memory that takes the decision whatever the answer to 'Remember this
\* decision?' was
RememberDecisionAlways(choice, original_column_name, number) ==
  (original_column_name :> number) @@ remembered_enforced_column_name_changes

\* lines 114-115: the decision enters the memory on the answer 'yes'
RememberDecision(choice, original_column_name, number) ==
  IF choice = "yes"
  THEN (original_column_name :> number)
         @@ remembered_enforced_column_name_changes
  ELSE remembered_enforced_column_name_changes

\* The possible returns of one call, each with the decision memory it
\* leaves, whether the menu was shown, whether the user answered 'yes' to
\* 'Remember this decision?', and whether the result stands for "discard
\* this column" (menu entry 0, stored as -1).
verify_new_column_name(enforce, original_column_name) ==
  IF ~enforce
  THEN {[result |-> lower(strip(typed)),
         memory |-> remembered_enforced_column_name_changes,
         prompted |-> FALSE, remember |-> FALSE, discard |-> FALSE] :
          typed \in {t \in TypedNames :
                       /\ isidentifier(lower(strip(t)))
                       /\ \E confirmation \in TypedNames :
                            lower(strip(t)) = lower(strip(confirmation))}}
  ELSE IF original_column_name \in DOMAIN remembered_enforced_column_name_changes
  THEN {[result |-> PyIndex(ALLOWED_COLUMN_NAMES,
                            remembered_enforced_column_name_changes[original_column_name]),
         memory |-> remembered_enforced_column_name_changes,
         prompted |-> FALSE, remember |-> FALSE,
         discard |-> remembered_enforced_column_name_changes[original_column_name] = -1]}
  ELSE {[result |-> IF number # -1 THEN ALLOWED_COLUMN_NAMES[number + 1] ELSE << >>,
         memory |-> RememberDecision(choice, original_column_name, number),
         prompted |-> TRUE, remember |-> choice = "yes",
         discard |-> number = -1] :
          number \in MenuNumbers, choice \in {"yes", "no"}}

\* ---------------------------------------------------- print_column_sample
RECURSIVE SampleLoop(_, _, _, _, _)
SampleLoop(rs, column_index, row_index, column_sample, num_sample_entries) ==
  IF Len(column_sample) < num_sample_entries
  THEN IF column_index >= Len(rs[row_index + 1])
       THEN [error |-> TRUE, sample |-> column_sample]
       ELSE LET entry == rs[row_index + 1][column_index + 1]
                extended == IF entry # << >>
                            THEN Append(column_sample, entry)
                            ELSE column_sample
            IN IF row_index + 1 = Len(rs)
               THEN [error |-> FALSE, sample |-> extended]
               ELSE SampleLoop(rs, column_index, row_index + 1, extended,
                               num_sample_entries)
  ELSE [error |-> FALSE, sample |-> column_sample]

print_column_sample(rs, column_index) ==
  SampleLoop(rs, column_index, 0, << >>,
             IF SampleSize < Len(rs) THEN SampleSize ELSE Len(rs))

\* ---------------------------------------------- sanitize_csv_column_names
\* ''.join(c if c.isalnum() else '_' for c in h)
replace_non_alnum(h) == [i \in 1..Len(h) |-> IF isalnum(h[i]) THEN h[i] ELSE "_"]

RECURSIVE SortedDescending(_)
SortedDescending(indices) ==
  IF indices = << >> THEN << >>
  ELSE LET m == CHOOSE x \in Range(indices) : \A y \in Range(indices) : y <= x
           at == CHOOSE i \in 1..Len(indices) : indices[i] = m
       IN <<m>> \o SortedDescending(Pop(indices, at - 1))

\* the removal loop: pop every discarded index from the header, then from
\* every row; a pop beyond the end of a list raises IndexError
RECURSIVE PopColumns(_, _, _)
PopColumns(hs, rs, indices) ==
  IF indices = << >> THEN [error |-> FALSE, headers |-> hs, rows |-> rs]
  ELSE LET column_index == Head(indices)
       IN IF \/ column_index >= Len(hs)
             \/ \E r \in 1..Len(rs) : column_index >= Len(rs[r])
          THEN [error |-> TRUE, headers |-> hs, rows |-> rs]
          ELSE PopColumns(Pop(hs, column_index),
                          [r \in 1..Len(rs) |-> Pop(rs[r], column_index)],
                          Tail(indices))

\* the worksheets given to the sanitizer, each of MaxRows data rows
InputTables == LetterTables(RawHeaders, MaxCols, {MaxRows})

\* what a call of verify_new_column_name leaves behind
Resolved(o, enforce, original_column_name, column_index) ==
  /\ remembered_enforced_column_name_changes' = o.memory
  /\ resolution' =
       IF enforce
       THEN [called |-> TRUE, h |-> original_column_name, result |-> o.result,
             prompted |-> o.prompted, remember |-> o.remember,
             known |-> original_column_name
                         \in DOMAIN remembered_enforced_column_name_changes]
       ELSE NoResolution
  /\ recorded' =
       IF o.memory # remembered_enforced_column_name_changes
       THEN (original_column_name :> o.result) @@ recorded
       ELSE recorded
  /\ decided' = IF o.discard THEN decided \cup {column_index} ELSE decided

NotResolved ==
  /\ resolution' = NoResolution
  /\ UNCHANGED <<remembered_enforced_column_name_changes, recorded>>

\* the locals of sanitize_csv_column_names end with the call
LocalsGone ==
  /\ headers' = << >>
  /\ rows' = << >>
  /\ new_headers' = << >>
  /\ sanitized_headers' = << >>
  /\ empty_column_header_indices' = << >>
  /\ discarded_column_indices' = << >>
  /\ loop_pos' = 0

\* an uncaught exception ends the call before the file is rewritten
Fail(error) ==
  /\ pc' = "done"
  /\ outcome' = error
  /\ NotResolved
  /\ LocalsGone
  /\ UNCHANGED <<flagVars, file_no, csv_file, input, rejected, decided>>

\* lines 179-186, entered from the caller's loop over the files
ReadFile ==
  /\ pc = "idle"
  /\ file_no < NumFiles
  /\ \E t \in InputTables :
       /\ csv_file' = t
       /\ input' = t
       /\ headers' = t.headers
       /\ rows' = t.rows
  /\ file_no' = file_no + 1
  /\ discarded_column_indices' = << >>
  /\ new_headers' = << >>
  /\ sanitized_headers' = << >>
  /\ empty_column_header_indices' = << >>
  /\ loop_pos' = 0
  /\ rejected' = FALSE
  /\ decided' = {}
  /\ outcome' = "running"
  /\ pc' = IF assume_headers THEN "sanitize" ELSE "confirm"
  /\ NotResolved
  /\ UNCHANGED flagVars
  /\ UNCHANGED stageVars

\* lines 187-196: is the first row a header row?
ConfirmHeaders ==
  /\ pc = "confirm"
  /\ \E choice \in {"yes", "no"} :
       IF choice = "no"
       THEN /\ rows' = <<headers>> \o rows
            /\ rejected' = TRUE
            /\ pc' = "name"
       ELSE /\ pc' = "sanitize"
            /\ UNCHANGED <<rows, rejected>>
  /\ NotResolved
  /\ UNCHANGED <<flagVars, file_no, outcome, csv_file, headers, new_headers,
                 sanitized_headers, empty_column_header_indices,
                 discarded_column_indices, loop_pos, input, decided>>
  /\ UNCHANGED stageVars

\* lines 197-209: one iteration of the naming loop after a rejected header
NameColumn ==
  /\ pc = "name"
  /\ loop_pos < Len(headers)
  /\ LET column_index == loop_pos
     IN IF print_column_sample(rows, column_index).error
        THEN Fail("IndexError")
        ELSE /\ \E choice \in {"rename", "discard"} :
                  IF choice = "rename"
                  THEN /\ \E o \in verify_new_column_name(enforce_headers,
                                                          headers[column_index + 1]) :
                            /\ new_headers' = Append(new_headers, o.result)
                            /\ Resolved(o, enforce_headers,
                                        headers[column_index + 1], column_index)
                       /\ UNCHANGED discarded_column_indices
                  ELSE /\ discarded_column_indices' =
                            Append(discarded_column_indices, column_index)
                       /\ decided' = decided \cup {column_index}
                       /\ NotResolved
                       /\ UNCHANGED new_headers
             /\ loop_pos' = loop_pos + 1
             /\ UNCHANGED <<flagVars, file_no, pc, outcome, csv_file, headers,
                            rows, sanitized_headers,
                            empty_column_header_indices, input, rejected>>
  /\ UNCHANGED stageVars

\* line 211
NamingDone ==
  /\ pc = "name"
  /\ loop_pos = Len(headers)
  /\ headers' = new_headers
  /\ loop_pos' = 0
  /\ pc' = "sanitize"
  /\ NotResolved
  /\ UNCHANGED <<flagVars, file_no, outcome, csv_file, rows, new_headers,
                 sanitized_headers, empty_column_header_indices,
                 discarded_column_indices, input, rejected, decided>>
  /\ UNCHANGED stageVars

\* lines 216-241: one iteration of the loop over the header entries
SanitizeHeader ==
  /\ pc = "sanitize"
  /\ loop_pos < Len(headers)
  /\ LET column_index == loop_pos
         h == lower(strip(headers[column_index + 1]))
     IN IF column_index \in Range(discarded_column_indices)
        THEN /\ NotResolved
             /\ UNCHANGED <<sanitized_headers, empty_column_header_indices,
                            discarded_column_indices, decided>>
        ELSE IF h = << >>
        THEN /\ empty_column_header_indices' =
                  Append(empty_column_header_indices, column_index)
             /\ sanitized_headers' = Append(sanitized_headers, replace_non_alnum(h))
             /\ NotResolved
             /\ UNCHANGED <<discarded_column_indices, decided>>
        ELSE IF h \notin Range(ALLOWED_COLUMN_NAMES) /\ enforce_headers
        THEN /\ \E o \in verify_new_column_name(enforce_headers, h) :
                  /\ sanitized_headers' =
                       Append(sanitized_headers, replace_non_alnum(o.result))
                  /\ Resolved(o, enforce_headers, h, column_index)
             /\ UNCHANGED <<empty_column_header_indices, discarded_column_indices>>
        ELSE IF isnumeric(h[1])
        THEN /\ \E choice \in (IF ~destructive THEN {"rename", "discard"}
                                               ELSE {"discard"}) :
                  IF choice = "rename"
                  THEN /\ \E o \in verify_new_column_name(enforce_headers, h) :
                            /\ sanitized_headers' =
                                 Append(sanitized_headers, replace_non_alnum(o.result))
                            /\ Resolved(o, enforce_headers, h, column_index)
                       /\ UNCHANGED discarded_column_indices
                  ELSE /\ discarded_column_indices' =
                            Append(discarded_column_indices, column_index)
                       /\ sanitized_headers' =
                            Append(sanitized_headers, replace_non_alnum(h))
                       /\ decided' = decided \cup {column_index}
                       /\ NotResolved
             /\ UNCHANGED empty_column_header_indices
        ELSE /\ sanitized_headers' = Append(sanitized_headers, replace_non_alnum(h))
             /\ NotResolved
             /\ UNCHANGED <<empty_column_header_indices,
                            discarded_column_indices, decided>>
  /\ loop_pos' = loop_pos + 1
  /\ UNCHANGED <<flagVars, file_no, pc, outcome, csv_file, headers, rows,
                 new_headers, input, rejected>>
  /\ UNCHANGED stageVars

\* the loop of line 216 is exhausted; line 243 starts the empty-header pass
SanitizeDone ==
  /\ pc = "sanitize"
  /\ loop_pos = Len(headers)
  /\ loop_pos' = 0
  /\ pc' = "empty"
  /\ NotResolved
  /\ UNCHANGED <<flagVars, file_no, outcome, csv_file, headers, rows,
                 new_headers, sanitized_headers, empty_column_header_indices,
                 discarded_column_indices, input, rejected, decided>>
  /\ UNCHANGED stageVars

\* lines 243-262: one iteration of the empty-header pass
ResolveEmptyHeader ==
  /\ pc = "empty"
  /\ loop_pos < Len(empty_column_header_indices)
  /\ LET column_index == empty_column_header_indices[loop_pos + 1]
     IN IF ~discard_empty /\ print_column_sample(rows, column_index).error
        THEN Fail("IndexError")
        ELSE \E choice \in (IF ~discard_empty THEN {"rename", "discard"}
                                              ELSE {"discard"}) :
               IF choice = "rename" /\ column_index >= Len(sanitized_headers)
               THEN Fail("IndexError")
               ELSE /\ IF choice = "rename"
                       THEN /\ \E o \in verify_new_column_name(
                                          enforce_headers,
                                          sanitized_headers[column_index + 1]) :
                                 /\ sanitized_headers' =
                                      [sanitized_headers EXCEPT ![column_index + 1] = o.result]
                                 /\ Resolved(o, enforce_headers,
                                             sanitized_headers[column_index + 1],
                                             column_index)
                            /\ UNCHANGED discarded_column_indices
                       ELSE /\ discarded_column_indices' =
                                 Append(discarded_column_indices, column_index)
                            /\ decided' = decided \cup {column_index}
                            /\ NotResolved
                            /\ UNCHANGED sanitized_headers
                    /\ loop_pos' = loop_pos + 1
                    /\ UNCHANGED <<flagVars, file_no, pc, outcome, csv_file,
                                   headers, rows, new_headers,
                                   empty_column_header_indices, input, rejected>>
  /\ UNCHANGED stageVars

\* lines 264-272: remove the discarded columns and write the file
RemoveDiscarded ==
  /\ pc = "empty"
  /\ loop_pos = Len(empty_column_header_indices)
  /\ LET popped == PopColumns(sanitized_headers, rows,
                              SortedDescending(discarded_column_indices))
     IN IF popped.error
        THEN Fail("IndexError")
        ELSE /\ csv_file' = [headers |-> popped.headers, rows |-> popped.rows]
             /\ pc' = "done"
             /\ outcome' = "returned"
             /\ NotResolved
             /\ LocalsGone
             /\ UNCHANGED <<flagVars, file_no, input, rejected, decided>>
  /\ UNCHANGED stageVars

\* the call returned: the caller's loop goes on to the next file.  An
\* exception is caught nowhere and ends the run.
NextFile ==
  /\ pc = "done"
  /\ outcome = "returned"
  /\ pc' = "idle"
  /\ outcome' = "running"
  /\ input' = NoTable
  /\ rejected' = FALSE
  /\ decided' = {}
  /\ NotResolved
  /\ UNCHANGED <<flagVars, file_no, csv_file, localVars>>
  /\ UNCHANGED stageVars

SanInit ==
  /\ destructive \in BOOLEAN
  /\ discard_empty \in BOOLEAN
  /\ assume_headers \in BOOLEAN
  /\ enforce_headers \in BOOLEAN
  /\ remembered_enforced_column_name_changes = EmptyDict
  /\ file_no = 0
  /\ pc = "idle"
  /\ outcome = "running"
  /\ csv_file = NoTable
  /\ headers = << >>
  /\ rows = << >>
  /\ new_headers = << >>
  /\ sanitized_headers = << >>
  /\ empty_column_header_indices = << >>
  /\ discarded_column_indices = << >>
  /\ loop_pos = 0
  /\ input = NoTable
  /\ rejected = FALSE
  /\ decided = {}
  /\ resolution = NoResolution
  /\ recorded = EmptyDict
  /\ output_directory = << >>
  /\ dir_before = << >>
  /\ filename_regex = << >>
  /\ xlsx_filename = << >>
  /\ NoRun

SanNext ==
  \/ ReadFile
  \/ ConfirmHeaders
  \/ NameColumn
  \/ NamingDone
  \/ SanitizeHeader
  \/ SanitizeDone
  \/ ResolveEmptyHeader
  \/ RemoveDiscarded
  \/ NextFile

vars == <<sanVars, stageVars>>

Init == SanInit

Next == SanNext

Spec == Init /\ [][Next]_vars

\* ------------------------------------------------- claims on the sanitizer
Returned == pc = "done" /\ outcome = "returned"

\* C1 (vocabulary conformance): when sanitize_csv_column_names has returned
\* under enforce_headers, every header entry of the written table is one of
\* ALLOWED_COLUMN_NAMES.
C1_VocabularyConformance ==
  (Returned /\ enforce_headers) =>
    \A i \in 1..Len(csv_file.headers) :
      csv_file.headers[i] \in Range(ALLOWED_COLUMN_NAMES)

\* C2 (decision memoization): a Vocabulary Resolution of a raw header whose
\* resolution is in the decision memory returns what was returned when the
\* entry was recorded, and shows no menu.
C2_DecisionMemoization ==
  (resolution.called /\ resolution.known) =>
    /\ resolution.result = recorded[resolution.h]
    /\ ~resolution.prompted

\* C3 (shape): sanitize_csv_column_names ends without an IndexError and every
\* row of the written table is as long as its header.
C3_ShapeRestored ==
  pc = "done" =>
    /\ outcome = "returned"
    /\ \A r \in 1..Len(csv_file.rows) :
         Len(csv_file.rows[r]) = Len(csv_file.headers)

\* [a-z_][a-z0-9_]*
IdentifierSafe(name) ==
  /\ name # << >>
  /\ name[1] \in Range(AsciiLower) \cup {"_"}
  /\ \A i \in 1..Len(name) : name[i] \in Range(AsciiLower) \cup AsciiDigits \cup {"_"}

\* C4 (identifier safety): every header entry of the table written by
\* sanitize_csv_column_names is non-empty, made of lowercase alphanumerics
\* and underscores, and does not begin with a digit.
C4_IdentifierSafety ==
  Returned =>
    \A i \in 1..Len(csv_file.headers) : IdentifierSafe(csv_file.headers[i])

\* the rows the sanitizer works on: the data rows, below the first row when
\* it was rejected as a header
WorkRows == IF rejected THEN <<input.headers>> \o input.rows ELSE input.rows

\* a row without the cells at the 0-based positions of gone
RECURSIVE Without(_, _, _)
Without(row, gone, at) ==
  IF row = << >> THEN << >>
  ELSE (IF at \in gone THEN << >> ELSE <<Head(row)>>)
         \o Without(Tail(row), gone, at + 1)

\* C5 (discard exactness): the written table lacks exactly the columns for
\* which a discard decision was made; the others keep their cells and their
\* relative order.
C5_DiscardExactness ==
  Returned =>
    /\ Len(csv_file.headers) = Len(input.headers) - Cardinality(decided)
    /\ csv_file.rows = [r \in 1..Len(WorkRows) |-> Without(WorkRows[r], decided, 0)]

\* ------------------------------------------ csv.DictReader, csv.DictWriter
RECURSIVE LastIndexOf(_, _)
LastIndexOf(list, x) ==
  IF list[Len(list)] = x THEN Len(list)
  ELSE LastIndexOf(SubSeq(list, 1, Len(list) - 1), x)

\* one row of csv.DictReader: dict(zip(fieldnames, row)), a later column of
\* the same name overwriting an earlier one; the cells beyond the header go
\* under the key None, the names beyond the row get the value None
DictOfRow(fieldnames, row) ==
  [k \in Range(fieldnames)
           \cup (IF Len(row) > Len(fieldnames) THEN {NoneValue} ELSE {}) |->
     IF k \notin Range(fieldnames) THEN NoneValue
     ELSE IF LastIndexOf(fieldnames, k) <= Len(row)
          THEN row[LastIndexOf(fieldnames, k)]
          ELSE NoneValue]

RECURSIVE SkipBlankRows(_)
SkipBlankRows(rs) ==
  IF rs = << >> THEN << >>
  ELSE (IF Head(rs) = << >> THEN << >> ELSE <<Head(rs)>>) \o SkipBlankRows(Tail(rs))

\* list(csv.DictReader(f)): the first row is the fieldnames, a row without
\* cells is skipped
DictReader(table) ==
  [r \in 1..Len(SkipBlankRows(table.rows)) |->
     DictOfRow(table.headers, SkipBlankRows(table.rows)[r])]

\* DictWriter.writerow: a key outside the fieldnames raises ValueError, a
\* missing key and a None are written as ''
DictWriterRow(fieldnames, rowdict) ==
  [i \in 1..Len(fieldnames) |->
     IF fieldnames[i] \in DOMAIN rowdict /\ rowdict[fieldnames[i]] # NoneValue
     THEN rowdict[fieldnames[i]]
     ELSE << >>]

\* DictWriter.writerows: the rows written until one raises
RECURSIVE DictWriterRows(_, _)
DictWriterRows(fieldnames, rowdicts) ==
  IF rowdicts = << >> THEN [error |-> FALSE, rows |-> << >>]
  ELSE IF ~(DOMAIN Head(rowdicts) \subseteq Range(fieldnames))
  THEN [error |-> TRUE, rows |-> << >>]
  ELSE LET rest == DictWriterRows(fieldnames, Tail(rowdicts))
       IN [error |-> rest.error,
           rows |-> <<DictWriterRow(fieldnames, Head(rowdicts))>> \o rest.rows]

\* --------------------------------------------------- merge_all_csv_in_dir
MERGED == <<"m","e","r","g","e","d">>

MERGED_CSV == <<"_","m","e","r","g","e","d",".","c","s","v">>

\* 'merged' in csv_file.name
Contains(name, part) ==
  \E i \in 1..(Len(name) - Len(part) + 1) :
    SubSeq(name, i, i + Len(part) - 1) = part

\* name.split('_')[0]
RECURSIVE BeforeUnderscore(_)
BeforeUnderscore(name) ==
  IF name = << >> \/ Head(name) = "_" THEN << >>
  ELSE <<Head(name)>> \o BeforeUnderscore(Tail(name))

RECURSIVE Chain(_)
Chain(lists) == IF lists = << >> THEN << >> ELSE Head(lists) \o Chain(Tail(lists))

IsPriorMerge(name) == Contains(name, MERGED)

\* the csv_files dict: the listing without the names that hold 'merged'
RECURSIVE NotMerged(_)
NotMerged(files) ==
  IF files = << >> THEN << >>
  ELSE (IF IsPriorMerge(Head(files).name) THEN << >> ELSE <<Head(files)>>)
         \o NotMerged(Tail(files))

\* a deduplication that keeps the last occurrence of a name, not the first
RECURSIVE NoDuplicatesKeepLast(_, _)
NoDuplicatesKeepLast(all_headers, seen_headers) ==
  IF all_headers = << >> THEN << >>
  ELSE IF Head(all_headers) \in Range(Tail(all_headers))
  THEN NoDuplicatesKeepLast(Tail(all_headers), seen_headers)
  ELSE <<Head(all_headers)>> \o NoDuplicatesKeepLast(Tail(all_headers), seen_headers)

\* lines 563-567: keep a header unless it was seen before
RECURSIVE NoDuplicates(_, _)
NoDuplicates(all_headers, seen_headers) ==
  IF all_headers = << >> THEN << >>
  ELSE IF Head(all_headers) \in seen_headers
  THEN NoDuplicates(Tail(all_headers), seen_headers)
  ELSE <<Head(all_headers)>>
         \o NoDuplicates(Tail(all_headers), seen_headers \cup {Head(all_headers)})

\* open(path, 'w') and the writes: the file replaces one of the same name
WriteFile(dir, name, table) ==
  IF \E i \in 1..Len(dir) : dir[i].name = name
  THEN [i \in 1..Len(dir) |->
          IF dir[i].name = name THEN [name |-> name, table |-> table] ELSE dir[i]]
  ELSE Append(dir, [name |-> name, table |-> table])

merge_all_csv_in_dir(dir) ==
  IF dir = << >>
  THEN [error |-> "IndexError", dir |-> dir, written |-> NoTable]
  ELSE LET merged_filename == BeforeUnderscore(dir[1].name) \o MERGED_CSV
           csv_files == NotMerged(dir)
           headers_no_duplicates ==
             NoDuplicates(Chain([f \in 1..Len(csv_files) |-> csv_files[f].table.headers]), {})
           out == DictWriterRows(
                    headers_no_duplicates,
                    Chain([f \in 1..Len(csv_files) |-> DictReader(csv_files[f].table)]))
           table == [headers |-> headers_no_duplicates, rows |-> out.rows]
       IN [error |-> IF out.error THEN "ValueError" ELSE "none",
           dir |-> WriteFile(dir, merged_filename, table),
           written |-> table]

\* the sanitizer at rest, in the specifications of the other stages
SanitizerIdle ==
  /\ destructive = FALSE
  /\ discard_empty = FALSE
  /\ assume_headers = FALSE
  /\ remembered_enforced_column_name_changes = EmptyDict
  /\ file_no = 0
  /\ outcome = "running"
  /\ headers = << >>
  /\ rows = << >>
  /\ new_headers = << >>
  /\ sanitized_headers = << >>
  /\ empty_column_header_indices = << >>
  /\ discarded_column_indices = << >>
  /\ loop_pos = 0
  /\ rejected = FALSE
  /\ decided = {}
  /\ resolution = NoResolution
  /\ recorded = EmptyDict

P1_CSV == <<"p","_","1",".","c","s","v">>

Q2_CSV == <<"q","_","2",".","c","s","v">>

P_MERGED_CSV == <<"p","_","m","e","r","g","e","d",".","c","s","v">>

\* the CSV files of the directory given to the merger, in the order of glob
MergeFileNames == { P1_CSV, Q2_CSV, P_MERGED_CSV }

MergeColumnNames == { ALLOWED_COLUMN_NAMES[2], ALLOWED_COLUMN_NAMES[6] }

\* files of a header alone and files of MaxMergeRows data rows
MergeTables == LetterTables(MergeColumnNames, MaxMergeCols, {0, MaxMergeRows})

\* the directories of n files of different names
Directories(n) ==
  {d \in [1..n -> [name : MergeFileNames, table : MergeTables]] :
     \A i, j \in 1..n : i # j => d[i].name # d[j].name}

\* lines 550-579, as called at lines 726 and 767 with the output directory
\* as both arguments
MergeAllCsvInDir ==
  /\ pc = "merge"
  /\ LET merged == merge_all_csv_in_dir(output_directory)
     IN IF merged.error = "IndexError"
        THEN /\ outcome' = "IndexError"
             /\ UNCHANGED <<output_directory, csv_file>>
        ELSE /\ outcome' = IF merged.error = "none" THEN "returned" ELSE merged.error
             /\ output_directory' = merged.dir
             /\ csv_file' = merged.written
  /\ pc' = "done"
  /\ UNCHANGED <<flagVars, remembered_enforced_column_name_changes, file_no,
                 localVars, historyVars, dir_before, filename_regex,
                 xlsx_filename, runVars>>

MergeInit ==
  /\ SanitizerIdle
  /\ enforce_headers = FALSE
  /\ pc = "merge"
  /\ csv_file = NoTable
  /\ input = NoTable
  /\ \E n \in 0..MaxMergeFiles : output_directory \in Directories(n)
  /\ dir_before = output_directory
  /\ filename_regex = << >>
  /\ xlsx_filename = << >>
  /\ NoRun

MergeNext == MergeAllCsvInDir

MergeSpec == MergeInit /\ [][MergeNext]_vars

\* ---------------------------------------------------- claims on the merger
MergeInputs == NotMerged(dir_before)

InputHeaders == Chain([f \in 1..Len(MergeInputs) |-> MergeInputs[f].table.headers])

FirstIndexOf(list, x) == CHOOSE i \in 1..Len(list) : list[i] = x /\ \A j \in 1..(i - 1) : list[j] # x

\* C6 (merge header): for a non-empty collection of input tables the header
\* written by merge_all_csv_in_dir holds every column name of the inputs
\* exactly once, in the order of the names' first occurrences in the
\* concatenation of the input headers.
C6_MergeHeader ==
  (Returned /\ MergeInputs # << >>) =>
    /\ Range(csv_file.headers) = Range(InputHeaders)
    /\ \A i, j \in 1..Len(csv_file.headers) :
         i < j =>
           /\ csv_file.headers[i] # csv_file.headers[j]
           /\ FirstIndexOf(InputHeaders, csv_file.headers[i])
                < FirstIndexOf(InputHeaders, csv_file.headers[j])

\* two input tables share a column name, the second one brings a new name
\* after it
C6_Witness ==
  /\ Returned
  /\ Len(MergeInputs) >= 2
  /\ Len(csv_file.headers) >= 2
  /\ Len(InputHeaders) > Len(csv_file.headers)
  /\ \E i \in 1..Len(MergeInputs[2].table.headers) :
       /\ MergeInputs[2].table.headers[i] \notin Range(MergeInputs[1].table.headers)
       /\ \E j \in 1..(i - 1) :
            MergeInputs[2].table.headers[j] \in Range(MergeInputs[1].table.headers)

\* the data rows of the inputs, in file order then row order, each with the
\* header of its table
InputRows ==
  Chain([f \in 1..Len(MergeInputs) |->
           [r \in 1..Len(MergeInputs[f].table.rows) |->
              [headers |-> MergeInputs[f].table.headers,
               row |-> MergeInputs[f].table.rows[r]]]])

\* C7 (merge cell placement): the merged file has one row per data row of
\* the inputs, in file order then row order; every cell of the input row
\* stands under its column name and the columns its table lacks are empty.
C7_MergeCellPlacement ==
  Returned =>
    /\ Len(csv_file.rows) = Len(InputRows)
    /\ \A k \in 1..Len(InputRows) :
         /\ \A j \in 1..Len(InputRows[k].row) :
              \E c \in 1..Len(csv_file.headers) :
                /\ csv_file.headers[c] = InputRows[k].headers[j]
                /\ csv_file.rows[k][c] = InputRows[k].row[j]
         /\ \A c \in 1..Len(csv_file.headers) :
              csv_file.headers[c] \notin Range(InputRows[k].headers)
                => csv_file.rows[k][c] = << >>

\* C8 (empty input): with no CSV file, or only prior merge outputs, in the
\* directory, merge_all_csv_in_dir raises an error and writes no merged file.
C8_EmptyInputFails ==
  (pc = "done" /\ MergeInputs = << >>) =>
    /\ outcome \in {"IndexError", "ValueError"}
    /\ output_directory = dir_before

\* ------------------------------------------------ fill_in_missing_entries
RESPONSE == ALLOWED_COLUMN_NAMES[2]

PHONETIC_TRANSCRIPTION == ALLOWED_COLUMN_NAMES[4]

NR == <<"N","R">>

SEE_FIELD_PAGES == <<"s","e","e"," ","f","i","e","l","d"," ","p","a","g","e","s">>

\* lines 448-453: every key of the row is removed from a copy of the
\* vocabulary, what is left of the vocabulary is added with ''
Reconcile(new_row) ==
  [k \in DOMAIN new_row \cup Range(ALLOWED_COLUMN_NAMES) |->
     IF k \in DOMAIN new_row THEN new_row[k] ELSE << >>]

\* a filler that leaves the empty cell as it is
FillSentinelNever(new_row, key, sentinel) == new_row

\* lines 455-465: an empty cell under key gets the sentinel
FillSentinel(new_row, key, sentinel) ==
  IF key \in DOMAIN new_row /\ new_row[key] = << >>
  THEN [new_row EXCEPT ![key] = sentinel]
  ELSE new_row

fill_in_missing_entries(table, enforce) ==
  LET fieldnames == IF enforce THEN ALLOWED_COLUMN_NAMES ELSE table.headers
      read == DictReader(table)
      NewRow(row) ==
        FillSentinel(
          FillSentinel(IF enforce THEN Reconcile(row) ELSE row, RESPONSE, NR),
          PHONETIC_TRANSCRIPTION, SEE_FIELD_PAGES)
      out == DictWriterRows(fieldnames, [r \in 1..Len(read) |-> NewRow(read[r])])
  IN IF enforce /\ \E r \in 1..Len(read) :
                     ~(DOMAIN read[r] \subseteq Range(ALLOWED_COLUMN_NAMES))
     THEN [error |-> "ValueError", table |-> table]
     ELSE [error |-> IF out.error THEN "ValueError" ELSE "none",
           table |-> [headers |-> fieldnames, rows |-> out.rows]]

NOTE == <<"n","o","t","e">>

FillColumnNames ==
  { RESPONSE, PHONETIC_TRANSCRIPTION, ALLOWED_COLUMN_NAMES[6], NOTE }

FillCells == { << >>, <<"x">> }

FillTables == TablesOf(FillColumnNames, FillCells, MaxFillCols, MaxFillRows)

FillInMissingEntries ==
  /\ pc = "fill"
  /\ LET filled == fill_in_missing_entries(csv_file, enforce_headers)
     IN /\ csv_file' = filled.table
        /\ outcome' = IF filled.error = "none" THEN "returned" ELSE filled.error
  /\ pc' = "done"
  /\ UNCHANGED <<flagVars, remembered_enforced_column_name_changes, file_no,
                 localVars, historyVars, stageVars>>

FillInit ==
  /\ SanitizerIdle
  /\ enforce_headers \in BOOLEAN
  /\ pc = "fill"
  /\ csv_file \in FillTables
  /\ input = csv_file
  /\ output_directory = << >>
  /\ dir_before = << >>
  /\ filename_regex = << >>
  /\ xlsx_filename = << >>
  /\ NoRun

FillNext == FillInMissingEntries

FillSpec == FillInit /\ [][FillNext]_vars

\* ------------------------------------------ claims on the missing-value fill
VocabularyHeader == Range(input.headers) \subseteq Range(ALLOWED_COLUMN_NAMES)

ColumnOf(name) == FirstIndexOf(ALLOWED_COLUMN_NAMES, name)

\* C9 as stated (missing-value fill under enforce_headers): for a header
\* within the vocabulary the returned header is the vocabulary in canonical
\* order, every empty response cell has become "NR" and every vocabulary
\* column absent from the input header holds '' in every row.
C9_FillEnforced ==
  (Returned /\ enforce_headers /\ VocabularyHeader) =>
    /\ csv_file.headers = ALLOWED_COLUMN_NAMES
    /\ \A r \in 1..Len(input.rows) :
         /\ r <= Len(csv_file.rows)
         /\ \A j \in 1..Len(input.headers) :
              (input.headers[j] = RESPONSE /\ input.rows[r][j] = << >>)
                => csv_file.rows[r][ColumnOf(RESPONSE)] = NR
         /\ \A name \in Range(ALLOWED_COLUMN_NAMES) \ Range(input.headers) :
              csv_file.rows[r][ColumnOf(name)] = << >>

\* C9 as amended: the returned header is the vocabulary in canonical order;
\* in every row the response cell is "NR" when the input row's response
\* cell (the last one under that name) is empty or the column is absent,
\* the phonetic_transcription cell is "see field pages" when that column is
\* absent, and every other vocabulary column absent from the input header
\* holds ''.
C9_FillEnforcedAmended ==
  (Returned /\ enforce_headers /\ VocabularyHeader) =>
    /\ csv_file.headers = ALLOWED_COLUMN_NAMES
    /\ \A r \in 1..Len(input.rows) :
         /\ r <= Len(csv_file.rows)
         /\ (\/ RESPONSE \notin Range(input.headers)
             \/ input.rows[r][LastIndexOf(input.headers, RESPONSE)] = << >>)
              => csv_file.rows[r][ColumnOf(RESPONSE)] = NR
         /\ PHONETIC_TRANSCRIPTION \notin Range(input.headers)
              => csv_file.rows[r][ColumnOf(PHONETIC_TRANSCRIPTION)] = SEE_FIELD_PAGES
         /\ \A name \in Range(ALLOWED_COLUMN_NAMES)
                          \ (Range(input.headers) \cup {RESPONSE, PHONETIC_TRANSCRIPTION}) :
              csv_file.rows[r][ColumnOf(name)] = << >>

\* the scenario of the claim: the row {response: ''} filled under
\* enforce_headers
C9_Witness ==
  /\ Returned
  /\ enforce_headers
  /\ input = [headers |-> <<RESPONSE>>, rows |-> << << << >> >> >>]
  /\ Len(csv_file.rows) = 1
  /\ csv_file.rows[1][ColumnOf(RESPONSE)] = NR

\* ------------------------------------------ append_metadata_from_filename
PROJECT == ALLOWED_COLUMN_NAMES[5]

PAGE == ALLOWED_COLUMN_NAMES[6]

LINE == ALLOWED_COLUMN_NAMES[7]

FILENAME == ALLOWED_COLUMN_NAMES[8]

\* A compiled pattern is the sequence of its named groups.  re.match is the
\* library's: the patterns of the model follow the default pattern (lines
\* 657-662), which matches a name that holds '_page', and every group
\* captures a fixed text of the matching name.
UNDERSCORE_PAGE == <<"_","p","a","g","e">>

LAP_XLSX == <<"L","_","p","a","g","e","1","l","i","n","e","2",".","x","l","s","x">>

NOTES_XLSX == <<"n","o","t","e","s",".","x","l","s","x">>

XlsxNames == { LAP_XLSX, NOTES_XLSX }

SHEET == <<"s","h","e","e","t">>

FilenamePatterns ==
  { <<PROJECT, PAGE, LINE>>,
    <<<<"P","r","o","j","e","c","t">>, PAGE, LINE>>,
    <<PROJECT, SHEET, LINE>>,
    <<PROJECT, PAGE, LINE, SHEET>> }

Captured(group) ==
  IF lower(group) = PROJECT THEN <<"L">>
  ELSE IF lower(group) = PAGE THEN <<"1">>
  ELSE IF lower(group) = LINE THEN <<"2">>
  ELSE <<"s">>

\* filename_regex.match(name): None, or the groupdict as the sequence of its
\* (group, text) pairs
Match(regex, name) ==
  IF Contains(name, UNDERSCORE_PAGE)
  THEN [i \in 1..Len(regex) |-> <<regex[i], Captured(regex[i])>>]
  ELSE NoneValue

\* line 424: row | metadata | {'filename': name}, the right operand winning
DictUnion(row, metadata_keys, metadata_value, name) ==
  [k \in DOMAIN row \cup Range(metadata_keys) \cup {FILENAME} |->
     IF k = FILENAME THEN name
     ELSE IF k \in Range(metadata_keys) THEN metadata_value[k]
     ELSE row[k]]

append_metadata_from_filename(table, regex, name) ==
  LET match == Match(regex, name)
      \* line 409: the keys in the order of the groups, lowercased
      metadata_keys == NoDuplicates([i \in 1..Len(match) |-> lower(match[i][1])], {})
      metadata_value ==
        [k \in Range(metadata_keys) |->
           match[CHOOSE i \in 1..Len(match) :
                   /\ lower(match[i][1]) = k
                   /\ \A j \in (i + 1)..Len(match) : lower(match[j][1]) # k][2]]
      read == DictReader(table)
      fieldnames == table.headers \o metadata_keys \o <<FILENAME>>
      out == DictWriterRows(
               fieldnames,
               [r \in 1..Len(read) |->
                  DictUnion(read[r], metadata_keys, metadata_value, name)])
  IN IF match = NoneValue
     THEN [error |-> "none", table |-> table]
     ELSE IF \E k \in Range(metadata_keys) : k \notin {PROJECT, PAGE, LINE}
     THEN [error |-> "KeyError", table |-> table]
     ELSE [error |-> IF out.error THEN "ValueError" ELSE "none",
           table |-> [headers |-> fieldnames, rows |-> out.rows]]

MetaColumnNames == { PROJECT, FILENAME, ALLOWED_COLUMN_NAMES[1] }

MetaTables == TablesOf(MetaColumnNames, FillCells, MaxMetaCols, MaxMetaRows)

AppendMetadataFromFilename ==
  /\ pc = "metadata"
  /\ LET appended == append_metadata_from_filename(csv_file, filename_regex,
                                                   xlsx_filename)
     IN /\ csv_file' = appended.table
        /\ outcome' = IF appended.error = "none" THEN "returned" ELSE appended.error
  /\ pc' = "done"
  /\ UNCHANGED <<flagVars, remembered_enforced_column_name_changes, file_no,
                 localVars, historyVars, stageVars>>

MetaInit ==
  /\ SanitizerIdle
  /\ enforce_headers = FALSE
  /\ pc = "metadata"
  /\ csv_file \in MetaTables
  /\ input = csv_file
  /\ output_directory = << >>
  /\ dir_before = << >>
  /\ filename_regex \in FilenamePatterns
  /\ xlsx_filename \in XlsxNames
  /\ NoRun

MetaNext == AppendMetadataFromFilename

MetaSpec == MetaInit /\ [][MetaNext]_vars

\* ------------------------------------------ claims on the metadata appender
\* C10 (metadata append on match): when the filename matches, the returned
\* header is the input header followed by project, page, line, filename and
\* every row is the input row, its cells unchanged, followed by the matched
\* project, page and line and the source filename, whatever the input header.
C10_MetadataAppended ==
  (Returned /\ Match(filename_regex, xlsx_filename) # NoneValue) =>
    /\ csv_file.headers = input.headers \o <<PROJECT, PAGE, LINE, FILENAME>>
    /\ Len(csv_file.rows) = Len(input.rows)
    /\ \A r \in 1..Len(input.rows) :
         csv_file.rows[r] =
           input.rows[r]
             \o <<Captured(PROJECT), Captured(PAGE), Captured(LINE), xlsx_filename>>

\* ------------------------------------------------ the stages before the
\* sanitizer: every one reads the file with csv.reader and writes it back
\* a file without a line: csv.reader yields no row, next(reader) raises
EmptyFile == [empty |-> TRUE]

IsEmptyFile(table) == "empty" \in DOMAIN table

\* list(csv.reader(f))
Lines(table) ==
  IF IsEmptyFile(table) THEN << >> ELSE <<table.headers>> \o table.rows

\* writer.writerows(lines), read again as a header row and data rows
FileOf(lines) ==
  IF lines = << >> THEN EmptyFile
  ELSE [headers |-> Head(lines), rows |-> Tail(lines)]

\* all('' == s for s in row)
AllEmpty(row) == \A j \in 1..Len(row) : row[j] = << >>

\* lines 145-159
strip_csv_whitespace(table) ==
  FileOf([i \in 1..Len(Lines(table)) |->
            [j \in 1..Len(Lines(table)[i]) |-> strip(Lines(table)[i][j])]])

\* line 285: [row for row in reader if not all('' == s for s in row)]
RECURSIVE KeepRows(_)
KeepRows(lines) ==
  IF lines = << >> THEN << >>
  ELSE (IF AllEmpty(Head(lines)) THEN << >> ELSE <<Head(lines)>>)
         \o KeepRows(Tail(lines))

\* lines 283-289: the reader's first row is filtered like every other row
prune_empty_csv_rows(table) == FileOf(KeepRows(Lines(table)))

\* len(max((row for row in rows), key=len)) of a non-empty list
MaxLen(rs) ==
  CHOOSE n \in {Len(rs[i]) : i \in 1..Len(rs)} :
    \A i \in 1..Len(rs) : Len(rs[i]) <= n

\* lines 315-318 and 350-353: the for-else over the rows of one column.
\* row[column_index] raises IndexError on a row that is too short, unless
\* the loop has left at a filled cell before.
RECURSIVE ColumnScan(_, _)
ColumnScan(rs, column_index) ==
  IF rs = << >> THEN "empty"
  ELSE IF column_index >= Len(Head(rs)) THEN "IndexError"
  ELSE IF Head(rs)[column_index + 1] # << >> THEN "filled"
  ELSE ColumnScan(Tail(rs), column_index)

Reversed(list) == [i \in 1..Len(list) |-> list[Len(list) + 1 - i]]

\* the 0-based positions at which a list of Booleans holds TRUE, ascending
RECURSIVE IndicesFrom(_, _)
IndicesFrom(marks, at) ==
  IF at >= Len(marks) THEN << >>
  ELSE (IF marks[at + 1] THEN <<at>> ELSE << >>) \o IndicesFrom(marks, at + 1)

\* lines 300-331
prune_padding_csv_columns(table) ==
  IF IsEmptyFile(table) THEN [error |-> "StopIteration", table |-> table]
  ELSE IF table.rows = << >> THEN [error |-> "ValueError", table |-> table]
  ELSE LET max_len_row == MaxLen(table.rows)
           header_len == Len(table.headers)
           hs == table.headers
                   \o [i \in 1..(max_len_row - header_len) |-> << >>]
           empty_column_indices ==
             IndicesFrom([c \in 1..Len(hs) |->
                            /\ ColumnScan(table.rows, c - 1) = "empty"
                            /\ hs[c] = << >>], 0)
           popped == PopColumns(hs, table.rows, Reversed(empty_column_indices))
       IN IF \/ \E c \in 0..(Len(hs) - 1) :
                  ColumnScan(table.rows, c) = "IndexError"
             \/ popped.error
          THEN [error |-> "IndexError", table |-> table]
          ELSE [error |-> "none",
                table |-> [headers |-> popped.headers, rows |-> popped.rows]]

\* the lists of 0-based positions, ascending, that the loop of lines
\* 349-364 can collect: a position marked "discard" is in every list, one
\* marked "ask" in some, one marked "keep" in none
RECURSIVE Choices(_, _)
Choices(marks, at) ==
  IF at >= Len(marks) THEN {<< >>}
  ELSE LET rest == Choices(marks, at + 1)
       IN (IF marks[at + 1] # "keep" THEN {<<at>> \o r : r \in rest} ELSE {})
            \cup (IF marks[at + 1] # "discard" THEN rest ELSE {})

\* lines 343-375: the possible results, one for every way of answering
\* 'discard' or 'keep' for the empty columns
prune_empty_csv_columns(table, destructive_sanitization) ==
  IF IsEmptyFile(table) THEN {[error |-> "StopIteration", table |-> table]}
  ELSE IF \E c \in 0..(Len(table.headers) - 1) :
            ColumnScan(table.rows, c) = "IndexError"
  THEN {[error |-> "IndexError", table |-> table]}
  ELSE LET Discards ==
             Choices([c \in 1..Len(table.headers) |->
                        IF ColumnScan(table.rows, c - 1) # "empty" THEN "keep"
                        ELSE IF destructive_sanitization THEN "discard"
                        ELSE "ask"], 0)
       IN {LET popped == PopColumns(table.headers, table.rows,
                                    Reversed(empty_column_indices))
           IN IF popped.error
              THEN [error |-> "IndexError", table |-> table]
              ELSE [error |-> "none",
                    table |-> [headers |-> popped.headers, rows |-> popped.rows]] :
             empty_column_indices \in Discards}

\* a stage called on one file: the other stages' variables at rest
StageAlone ==
  /\ SanitizerIdle
  /\ output_directory = << >>
  /\ dir_before = << >>
  /\ filename_regex = << >>
  /\ xlsx_filename = << >>
  /\ NoRun

\* -------------------------------------------------- prune_empty_csv_rows
HEADING == <<"h">>

PruneTables ==
  TablesOf({<< >>, HEADING}, FillCells, MaxPruneCols, MaxPruneRows)

PruneEmptyCsvRows ==
  /\ pc = "prune_rows"
  /\ csv_file' = prune_empty_csv_rows(csv_file)
  /\ outcome' = "returned"
  /\ pc' = "done"
  /\ UNCHANGED <<flagVars, remembered_enforced_column_name_changes, file_no,
                 localVars, historyVars, stageVars>>

PruneRowsInit ==
  /\ StageAlone
  /\ enforce_headers = FALSE
  /\ pc = "prune_rows"
  /\ csv_file \in PruneTables
  /\ input = csv_file

PruneRowsNext == PruneEmptyCsvRows

PruneRowsSpec == PruneRowsInit /\ [][PruneRowsNext]_vars

\* the data rows that hold a cell other than ''
RECURSIVE FilledRows(_)
FilledRows(rs) ==
  IF rs = << >> THEN << >>
  ELSE (IF \E j \in 1..Len(Head(rs)) : Head(rs)[j] # << >>
        THEN <<Head(rs)>> ELSE << >>) \o FilledRows(Tail(rs))

\* C13 (row pruner): prune_empty_csv_rows keeps the header row, even one
\* whose every cell is '', drops exactly the data rows whose every cell is
\* '' and keeps the other data rows in their order.
C13_RowPruner ==
  Returned =>
    /\ ~IsEmptyFile(csv_file)
    /\ csv_file.headers = input.headers
    /\ csv_file.rows = FilledRows(input.rows)

\* --------------------------------------------- prune_padding_csv_columns
\* tables whose data rows are shorter than, as long as or longer than the
\* header
AlignTables ==
  UNION {{[headers |-> h, rows |-> r] :
            h \in [1..n -> {<< >>, HEADING}],
            r \in SeqsUpTo(SeqsUpTo(FillCells, 0, MaxAlignCols + 1),
                           0, MaxAlignRows)} :
         n \in 1..MaxAlignCols}

PrunePaddingCsvColumns ==
  /\ pc = "align"
  /\ LET aligned == prune_padding_csv_columns(csv_file)
     IN /\ csv_file' = aligned.table
        /\ outcome' = IF aligned.error = "none" THEN "returned" ELSE aligned.error
  /\ pc' = "done"
  /\ UNCHANGED <<flagVars, remembered_enforced_column_name_changes, file_no,
                 localVars, historyVars, stageVars>>

AlignInit ==
  /\ StageAlone
  /\ enforce_headers = FALSE
  /\ pc = "align"
  /\ csv_file \in AlignTables
  /\ input = csv_file

AlignNext == PrunePaddingCsvColumns

AlignSpec == AlignInit /\ [][AlignNext]_vars

\* C14 (header aligner): for every table with a header row, with data rows
\* of any length or none, prune_padding_csv_columns ends without an error,
\* the written header is the input header followed by '' entries only, and
\* every written row is as long as the written header.
C14_HeaderAligner ==
  pc = "done" =>
    /\ outcome = "returned"
    /\ Len(csv_file.headers) >= Len(input.headers)
    /\ SubSeq(csv_file.headers, 1, Len(input.headers)) = input.headers
    /\ \A j \in (Len(input.headers) + 1)..Len(csv_file.headers) :
         csv_file.headers[j] = << >>
    /\ \A r \in 1..Len(csv_file.rows) :
         Len(csv_file.rows[r]) = Len(csv_file.headers)

\* ------------------------------------------------- prune_empty_csv_columns
StripCsvWhitespace ==
  /\ pc = "strip"
  /\ csv_file' = strip_csv_whitespace(csv_file)
  /\ outcome' = "returned"
  /\ pc' = "done"
  /\ UNCHANGED <<flagVars, remembered_enforced_column_name_changes, file_no,
                 localVars, historyVars, stageVars>>

PruneEmptyCsvColumns ==
  /\ pc = "prune_columns"
  /\ \E pruned \in prune_empty_csv_columns(csv_file, destructive) :
       /\ csv_file' = pruned.table
       /\ outcome' = IF pruned.error = "none" THEN "returned" ELSE pruned.error
  /\ pc' = "done"
  /\ UNCHANGED <<flagVars, remembered_enforced_column_name_changes, file_no,
                 localVars, historyVars, stageVars>>

\* ------------------------- convert_excel_file_to_csvs and its two callers
\* the worksheets of the workbooks: no row at all, a header row alone, or a
\* header row and up to MaxSheetRows data rows; a blank cell holds a space
BLANK == <<" ">>

SheetHeaders == { BLANK, <<"P","a","g","e">>, <<"2","n","d">> }

SheetCells == { BLANK, <<"a">> }

Sheets ==
  {EmptyFile} \cup TablesOf(SheetHeaders, SheetCells, 1, MaxSheetRows)

DRAFT_XLSX == <<"d","r","a","f","t",".","x","l","s","x">>

\* the workbooks of the input directory, in the order of glob
XlsxFiles == <<NOTES_XLSX, LAP_XLSX, DRAFT_XLSX>>

SHEET_TITLE == <<"S","h","e","e","t","1">>

\* Path.stem of a name that ends in '.xlsx'
Stem(name) == SubSeq(name, 1, Len(name) - 5)

\* lines 507-509: stem.replace(' ', '_') + '_' + title + '.csv'
CsvName(name) ==
  [i \in 1..Len(Stem(name)) |->
     IF Stem(name)[i] = " " THEN "_" ELSE Stem(name)[i]]
    \o <<"_">> \o SHEET_TITLE \o <<".","c","s","v">>

\* the calls of lines 516-531, in their order
StageOrder ==
  <<"strip", "prune_rows", "align", "prune_columns", "sanitize", "metadata",
    "fill">>

\* lines 519, 521, 529: the stages behind a flag
StageEnabled(s) ==
  CASE s = "prune_columns" -> prune_empty_columns
    [] s = "sanitize" -> sanitize_headers
    [] s = "metadata" -> append_metadata
    [] OTHER -> TRUE

\* where a stage begins: the sanitizer begins by opening the file
EntryOf(s) == IF s = "sanitize" THEN "open" ELSE s

PositionOf(s) == CHOOSE k \in 1..Len(StageOrder) : StageOrder[k] = s

RECURSIVE StageFrom(_)
StageFrom(k) ==
  IF k > Len(StageOrder) THEN "none"
  ELSE IF StageEnabled(StageOrder[k]) THEN StageOrder[k]
  ELSE StageFrom(k + 1)

\* an order of calls in which the filler runs before the metadata appender
StageAfterFillFirst(s) ==
  IF s = "metadata" THEN "none"
  ELSE IF s = "fill" THEN (IF append_metadata THEN "metadata" ELSE "none")
  ELSE IF StageFrom(PositionOf(s) + 1) = "metadata" THEN "fill"
  ELSE StageFrom(PositionOf(s) + 1)

\* the stage convert_excel_file_to_csvs calls after s, "none" after the last
StageAfter(s) == StageFrom(PositionOf(s) + 1)

\* lines 721-726 and 762-767; no_sanitize_headers is stored by the option
\* -c with action='store_false', so it holds TRUE when headers are sanitized
MergeGate(run_mode, cmd_merge, no_sanitize_headers) ==
  IF run_mode = "batch"
  THEN IF cmd_merge /\ ~no_sanitize_headers THEN "cannot merge"
       ELSE IF cmd_merge THEN "merge" ELSE "no merge"
  ELSE IF cmd_merge /\ no_sanitize_headers THEN "cannot merge"
       ELSE IF cmd_merge THEN "merge" ELSE "no merge"

\* lines 704-706 or 748-749, then lines 505-513: the next workbook is
\* loaded and its worksheet written as a CSV file
StartFile ==
  /\ pc = "next"
  /\ file_no < num_files
  /\ \E sheet \in Sheets :
       /\ csv_file' = sheet
       /\ worksheet' = sheet
  /\ xlsx_filename' = IF mode = "batch" THEN XlsxFiles[file_no + 1]
                                        ELSE xlsx_filename
  /\ file_no' = file_no + 1
  /\ stage' = "strip"
  /\ pc' = "strip"
  /\ ran' = << >>
  /\ outcome' = "running"
  /\ input' = NoTable
  /\ rejected' = FALSE
  /\ decided' = {}
  /\ NotResolved
  /\ UNCHANGED <<flagVars, localVars, output_directory, dir_before,
                 filename_regex, mode, merge, sanitize_headers,
                 prune_empty_columns, append_metadata, num_files,
                 printed_sample>>

\* lines 179-184 on the file the earlier stages have left
OpenFile ==
  /\ pc = "open"
  /\ IF IsEmptyFile(csv_file)
     THEN /\ pc' = "done"
          /\ outcome' = "StopIteration"
          /\ UNCHANGED <<input, localVars, rejected, decided>>
     ELSE /\ input' = csv_file
          /\ headers' = csv_file.headers
          /\ rows' = csv_file.rows
          /\ discarded_column_indices' = << >>
          /\ new_headers' = << >>
          /\ sanitized_headers' = << >>
          /\ empty_column_header_indices' = << >>
          /\ loop_pos' = 0
          /\ rejected' = FALSE
          /\ decided' = {}
          /\ outcome' = "running"
          /\ pc' = IF assume_headers THEN "sanitize" ELSE "confirm"
  /\ NotResolved
  /\ UNCHANGED <<flagVars, file_no, csv_file>>
  /\ UNCHANGED stageVars

\* a call of lines 516-531 has returned: the next call that is enabled
\* follows, and after the last one the file stands in the output directory
NextStage ==
  /\ pc = "done"
  /\ outcome = "returned"
  /\ stage \in Range(StageOrder)
  /\ ran' = Append(ran, stage)
  /\ stage' = StageAfter(stage)
  /\ pc' = IF StageAfter(stage) = "none" THEN "next"
           ELSE EntryOf(StageAfter(stage))
  /\ output_directory' =
       IF StageAfter(stage) = "none"
       THEN WriteFile(output_directory, CsvName(xlsx_filename), csv_file)
       ELSE output_directory
  /\ outcome' = "running"
  /\ NotResolved
  /\ UNCHANGED <<flagVars, file_no, csv_file, localVars, input, rejected,
                 decided, dir_before, filename_regex, xlsx_filename, mode,
                 merge, sanitize_headers, prune_empty_columns,
                 append_metadata, num_files, worksheet,
                 printed_sample>>

\* lines 721-726 or 762-767, after the last file
FinishRun ==
  /\ pc = "next"
  /\ file_no = num_files
  /\ IF MergeGate(mode, merge, sanitize_headers) = "merge"
     THEN /\ pc' = "merge"
          /\ stage' = "merge"
          /\ dir_before' = output_directory
          /\ UNCHANGED outcome
     ELSE /\ pc' = "done"
          /\ outcome' = "finished"
          /\ UNCHANGED <<stage, dir_before>>
  /\ NotResolved
  /\ UNCHANGED <<flagVars, file_no, csv_file, localVars, input, rejected,
                 decided, output_directory, filename_regex, xlsx_filename,
                 mode, merge, sanitize_headers, prune_empty_columns,
                 append_metadata, num_files, ran, worksheet,
                 printed_sample>>

\* the patterns given with -f: the default one and one with a group 'sheet'
RunPatterns == { <<PROJECT, PAGE, LINE>>, <<PROJECT, SHEET, LINE>> }

\* main, lines 777-793: the command line is parsed and the run begins.  An
\* option that no call of the run reads is left as the parser sets it.
RunInit ==
  /\ mode \in {"batch", "single"}
  /\ num_files \in (IF mode = "batch" THEN 0..MaxBatchFiles ELSE {1})
  /\ xlsx_filename \in (IF mode = "batch" THEN {<< >>} ELSE XlsxNames)
  /\ merge \in BOOLEAN
  /\ sanitize_headers \in BOOLEAN
  /\ prune_empty_columns \in BOOLEAN
  /\ append_metadata \in BOOLEAN
  /\ filename_regex \in (IF append_metadata THEN RunPatterns
                                            ELSE {<<PROJECT, PAGE, LINE>>})
  /\ destructive \in (IF sanitize_headers \/ prune_empty_columns
                      THEN BOOLEAN ELSE {FALSE})
  /\ discard_empty \in (IF sanitize_headers THEN BOOLEAN ELSE {FALSE})
  /\ assume_headers \in (IF sanitize_headers THEN BOOLEAN ELSE {FALSE})
  /\ enforce_headers \in BOOLEAN
  /\ remembered_enforced_column_name_changes = EmptyDict
  /\ file_no = 0
  /\ pc = "next"
  /\ outcome = "running"
  /\ csv_file = NoTable
  /\ headers = << >>
  /\ rows = << >>
  /\ new_headers = << >>
  /\ sanitized_headers = << >>
  /\ empty_column_header_indices = << >>
  /\ discarded_column_indices = << >>
  /\ loop_pos = 0
  /\ input = NoTable
  /\ rejected = FALSE
  /\ decided = {}
  /\ resolution = NoResolution
  /\ recorded = EmptyDict
  /\ output_directory = << >>
  /\ dir_before = << >>
  /\ stage = "none"
  /\ ran = << >>
  /\ worksheet = NoTable
  /\ printed_sample = << >>

RunNext ==
  \/ StartFile
  \/ StripCsvWhitespace
  \/ PruneEmptyCsvRows
  \/ PrunePaddingCsvColumns
  \/ PruneEmptyCsvColumns
  \/ OpenFile
  \/ ConfirmHeaders
  \/ NameColumn
  \/ NamingDone
  \/ SanitizeHeader
  \/ SanitizeDone
  \/ ResolveEmptyHeader
  \/ RemoveDiscarded
  \/ AppendMetadataFromFilename
  \/ FillInMissingEntries
  \/ NextStage
  \/ FinishRun
  \/ MergeAllCsvInDir

RunSpec == RunInit /\ [][RunNext]_vars

\* ------------------------------------------------------ claims on a run
\* the run has ended: an exception is caught nowhere, the merger is the
\* last call and so is the message that nothing is merged
RunOver == pc = "done" /\ (outcome # "returned" \/ stage = "merge")

\* the pattern has a group that is not project, page or line
BadPattern ==
  \E i \in 1..Len(filename_regex) :
    lower(filename_regex[i]) \notin {PROJECT, PAGE, LINE}

\* C11 (pattern groups): a filename pattern with a group outside project,
\* page, line is rejected with a KeyError before any file is processed: no
\* stage has run on any file when the KeyError is raised, and a run with
\* such a pattern ends with the KeyError whether or not a filename matches.
C11_PatternRejectedFirst ==
  BadPattern =>
    /\ outcome = "KeyError" => (ran = << >> /\ file_no = 0)
    /\ RunOver => outcome = "KeyError"

\* C12 (row count): when the last stage has returned for a file, the file
\* has as many lines as the worksheet had, less those the row pruner
\* removed as empty, a header row the user rejected counting as one more.
C12_RowCountConserved ==
  (stage = "fill" /\ Returned) =>
    Len(Lines(csv_file))
      = Len(Lines(prune_empty_csv_rows(strip_csv_whitespace(worksheet))))
          + (IF rejected THEN 1 ELSE 0)

\* C15: the decision memory is empty when the run starts and only grows: an
\* entry once recorded for a raw header is never removed and never changes
\* its value, and an entry is added only by a vocabulary resolution that
\* showed the menu and whose answer the user chose to remember.
C15_DecisionMemoryGrows ==
  /\ remembered_enforced_column_name_changes = EmptyDict
  /\ [][ /\ \A k \in DOMAIN remembered_enforced_column_name_changes :
             /\ k \in DOMAIN remembered_enforced_column_name_changes'
             /\ remembered_enforced_column_name_changes'[k]
                  = remembered_enforced_column_name_changes[k]
        /\ remembered_enforced_column_name_changes'
             # remembered_enforced_column_name_changes
           => /\ resolution'.called
              /\ resolution'.prompted
              /\ resolution'.remember
              /\ DOMAIN remembered_enforced_column_name_changes'
                   = DOMAIN remembered_enforced_column_name_changes
                       \cup {resolution'.h} ]_vars

\* a later file meets a raw header whose decision the memory already holds
C15_Witness ==
  /\ file_no = NumFiles
  /\ remembered_enforced_column_name_changes # EmptyDict
  /\ resolution.called
  /\ resolution.known

\* the exceptions a worksheet of an unexpected shape raises in a stage
ShapeErrors == {"StopIteration", "ValueError", "IndexError"}

\* C16: in batch mode an input-shape error of one file fails that file
\* alone: a batch run never ends on such an error while a workbook of the
\* directory has not been processed.
C16_ErrorsIsolated ==
  (/\ mode = "batch"
   /\ RunOver
   /\ stage \in Range(StageOrder)
   /\ outcome \in ShapeErrors)
    => file_no = num_files

\* C20: in batch mode and in single-file mode alike the merger runs if and
\* only if merging was requested and header sanitization was enabled: the
\* merger is entered only then, and a run that ends without merging is a
\* run where merging was not requested or sanitization was disabled.
C20_MergeGating ==
  /\ stage = "merge" => (merge /\ sanitize_headers)
  /\ outcome = "finished" => ~(merge /\ sanitize_headers)

\* the stages the flags of the run enable, in the order of StageOrder
EnabledStages == SelectSeq(StageOrder, StageEnabled)

\* C17: for every file the enabled stages run in the order strip, prune
\* rows, align, prune columns, sanitize, append metadata, fill, each one
\* after the previous one has returned; a file begins only when every
\* earlier file has passed its last stage, and the merger begins only when
\* every file has.
C17_StageOrdering ==
  /\ stage \in Range(StageOrder) =>
       /\ Len(ran) < Len(EnabledStages)
       /\ Append(ran, stage) = SubSeq(EnabledStages, 1, Len(ran) + 1)
       /\ Len(output_directory) = file_no - 1
  /\ (stage = "none" /\ file_no > 0) =>
       /\ ran = EnabledStages
       /\ Len(output_directory) = file_no
  /\ stage = "merge" =>
       /\ file_no = num_files
       /\ Len(dir_before) = num_files
       /\ num_files > 0 => ran = EnabledStages

\* the merger has run after two workbooks went through all seven stages
C17_Witness ==
  /\ stage = "merge"
  /\ Returned
  /\ num_files = 2
  /\ ran = StageOrder

\* the sanitizing loop has just passed a column whose stripped, lowered
\* header starts with a digit
DigitHeaderPassed ==
  /\ pc = "sanitize"
  /\ loop_pos > 0
  /\ LET h == lower(strip(headers[loop_pos]))
     IN h # << >> /\ isnumeric(h[1])

\* C18: under the destructive policy the sanitizer discards every header
\* that starts with a digit, and shows no prompt or menu for it, whatever
\* the other flags are (enforce_headers included).
C18_DestructiveDigitHeader ==
  (destructive /\ DigitHeaderPassed) =>
    /\ (loop_pos - 1) \in Range(discarded_column_indices)
    /\ ~(resolution.called /\ resolution.prompted)

\* what the filler is to leave in a cell: the sentinel in an empty response
\* or phonetic_transcription cell, the cell itself anywhere else
FilledCell(name, cell) ==
  IF cell = << >> /\ name = RESPONSE THEN NR
  ELSE IF cell = << >> /\ name = PHONETIC_TRANSCRIPTION THEN SEE_FIELD_PAGES
  ELSE cell

\* C19: fill_in_missing_entries changes nothing but sentinel cells: every
\* row is kept, every cell of every input column stands unchanged under its
\* column name in the output unless it is an empty response or
\* phonetic_transcription cell (also when two columns carry the same name),
\* and without enforce_headers the header is the input header.
C19_FillFrame ==
  Returned =>
    /\ Len(csv_file.rows) = Len(input.rows)
    /\ \A r \in 1..Len(input.rows) : \A j \in 1..Len(input.headers) :
         \E c \in 1..Len(csv_file.headers) :
           /\ csv_file.headers[c] = input.headers[j]
           /\ csv_file.rows[r][c] = FilledCell(input.headers[j], input.rows[r][j])
    /\ ~enforce_headers => csv_file.headers = input.headers

\* ------------------------------------------------ the column sample alone
\* csv_toolkit.py, lines 127-134: the loop of the empty-header pass, which
\* runs until the sample has min(12, len(rows)) entries and reads
\* rows[row_index] without looking at the end of the list
RECURSIVE ToolkitSampleLoop(_, _, _, _)
ToolkitSampleLoop(rs, column_index, row_index, column_sample) ==
  IF Len(column_sample) # (IF SampleSize < Len(rs) THEN SampleSize ELSE Len(rs))
  THEN IF row_index >= Len(rs)
       THEN [error |-> TRUE, sample |-> column_sample]
       ELSE IF column_index >= Len(rs[row_index + 1])
       THEN [error |-> TRUE, sample |-> column_sample]
       ELSE LET entry == rs[row_index + 1][column_index + 1]
            IN ToolkitSampleLoop(rs, column_index, row_index + 1,
                                 IF entry # << >>
                                 THEN Append(column_sample, entry)
                                 ELSE column_sample)
  ELSE [error |-> FALSE, sample |-> column_sample]

\* the cell of data row r in the sampled column, when it is not empty: the
\* rows are told apart by the length of the cell
SampleCell(r) == [i \in 1..r |-> "x"]

OTHER_CELL == <<"o">>

\* a table of width columns and n data rows whose column under the empty
\* header (index column_index) is filled in the rows of the set filled; the
\* last line of a short file has lost its cells from that column on
SampleTable(width, column_index, n, filled, short) ==
  [headers |-> [j \in 1..width |->
                  IF j = column_index + 1 THEN << >> ELSE OTHER_CELL],
   rows |-> [r \in 1..n |->
               [j \in 1..(IF short /\ r = n THEN column_index ELSE width) |->
                  IF j # column_index + 1 THEN OTHER_CELL
                  ELSE IF r \in filled THEN SampleCell(r) ELSE << >>]]]

\* process_lap_excels.py, line 249: the sample of the column at hand is
\* printed
PrintColumnSample ==
  /\ pc = "sample"
  /\ LET shown == print_column_sample(
                    rows, empty_column_header_indices[loop_pos + 1])
     IN /\ printed_sample' = shown.sample
        /\ outcome' = IF shown.error THEN "IndexError" ELSE "returned"
  /\ pc' = "done"
  /\ UNCHANGED <<flagVars, remembered_enforced_column_name_changes, file_no,
                 csv_file, localVars, historyVars, output_directory,
                 dir_before, filename_regex, xlsx_filename, mode, merge,
                 sanitize_headers, prune_empty_columns, append_metadata,
                 num_files, stage, ran, worksheet>>

\* csv_toolkit.py, lines 127-135: the same point of the other script
ToolkitColumnSample ==
  /\ pc = "sample"
  /\ LET shown == ToolkitSampleLoop(
                    rows, empty_column_header_indices[loop_pos + 1], 0, << >>)
     IN /\ printed_sample' = shown.sample
        /\ outcome' = IF shown.error THEN "IndexError" ELSE "returned"
  /\ pc' = "done"
  /\ UNCHANGED <<flagVars, remembered_enforced_column_name_changes, file_no,
                 csv_file, localVars, historyVars, output_directory,
                 dir_before, filename_regex, xlsx_filename, mode, merge,
                 sanitize_headers, prune_empty_columns, append_metadata,
                 num_files, stage, ran, worksheet>>

\* the sanitizer has read the file and its header loop has found the one
\* empty header; the empty-header pass is about to show its sample
SampleInit ==
  /\ destructive = FALSE
  /\ discard_empty = FALSE
  /\ assume_headers = TRUE
  /\ enforce_headers = FALSE
  /\ remembered_enforced_column_name_changes = EmptyDict
  /\ file_no = 0
  /\ pc = "sample"
  /\ outcome = "running"
  /\ \E width \in 1..2 : \E column_index \in 0..(width - 1) :
       \E n \in 0..MaxSampleRows : \E filled \in SUBSET (1..n) :
         \E short \in (IF n > 0 THEN BOOLEAN ELSE {FALSE}) :
           csv_file = SampleTable(width, column_index, n, filled, short)
  /\ input = csv_file
  /\ headers = csv_file.headers
  /\ rows = csv_file.rows
  /\ new_headers = << >>
  /\ sanitized_headers = csv_file.headers
  /\ empty_column_header_indices =
       <<(CHOOSE j \in 1..Len(headers) : headers[j] = << >>) - 1>>
  /\ discarded_column_indices = << >>
  /\ loop_pos = 0
  /\ rejected = FALSE
  /\ decided = {}
  /\ resolution = NoResolution
  /\ recorded = EmptyDict
  /\ output_directory = << >>
  /\ dir_before = << >>
  /\ filename_regex = << >>
  /\ xlsx_filename = << >>
  /\ NoRun

SampleNext == PrintColumnSample \/ ToolkitColumnSample

SampleSpec == SampleInit /\ [][SampleNext]_vars

\* the non-empty cells of a column, in row order
RECURSIVE NonEmptyCells(_, _)
NonEmptyCells(rs, column_index) ==
  IF rs = << >> THEN << >>
  ELSE (IF column_index < Len(Head(rs)) /\ Head(rs)[column_index + 1] # << >>
        THEN <<Head(rs)[column_index + 1]>> ELSE << >>)
         \o NonEmptyCells(Tail(rs), column_index)

\* C21: whenever a sanitizer shows a column sample, computing it ends
\* without an index error, for every table (a column with fewer non-empty
\* cells than min(12, number of rows) and a table without data rows
\* included), and the sample holds at most 12 values, all of them non-empty
\* cells of that column in row order.
C21_ColumnSample ==
  pc = "done" =>
    /\ outcome = "returned"
    /\ Len(printed_sample) <= SampleSize
    /\ \A i \in 1..Len(printed_sample) : printed_sample[i] # << >>
    /\ LET cells == NonEmptyCells(rows, empty_column_header_indices[loop_pos + 1])
       IN /\ Len(printed_sample) <= Len(cells)
          /\ printed_sample = SubSeq(cells, 1, Len(printed_sample))

====
